---- MODULE Spec2Model ----
(***************************************************************************)
(* Dual-venue (Kalshi + Polymarket) price monitor and cross-venue          *)
(* arbitrage executor.                                                     *)
(*                                                                         *)
(* Units.  Kalshi asks are integer cents (1..99).  Polymarket asks, the    *)
(* arbitrage band, the price buffer and the two sums are fractions of a    *)
(* dollar in the source; here they are integers in thousandths of a dollar *)
(* ("mils"), so 0.75 is 750 and one Kalshi cent is 10 mils.  The model     *)
(* computes with exact decimals: binary floating-point rounding of the     *)
(* source's sums is not represented.                                       *)
(*                                                                         *)
(* Asynchrony.  Node runs one thread; a handler runs without interruption  *)
(* up to its next await.  Each action below is one such uninterrupted      *)
(* stretch of code.                                                        *)
(***************************************************************************)
EXTENDS Integers, FiniteSets, Sequences, TLC

(***************************************************************************)
(* Bounds of the model                                                     *)
(***************************************************************************)
\* 15-minute slots are numbered 0..MaxSlot; the Kalshi market (ticker) and the
\* Polymarket slug of slot s are both written s.
MaxSlot == 1
\* Order counters saturate here (the code never counts; this is bookkeeping).
CountCap == 2
\* The monitor's fetch delivers its snapshot only while fewer than this many
\* arbitrage executions of other (ticker, leg) pairs are still unsettled.
MaxInFlight == 1
\* The same cap for direct calls of checkArbAndPlaceOrders (SpecArb).
MaxArbInFlight == 1
\* Direct calls of getTokenIdsForSlugCached made in a run (SpecCache).
MaxLookups == 3
\* Kalshi asks run over 0..MaxAskCents (SpecPrice).
MaxAskCents == 100
\* Date.now() runs over 0..MaxNow, in units of 100 ms (SpecSched).
MaxNow == 3

(***************************************************************************)
(* Program constants (config defaults)                                     *)
(***************************************************************************)
ARB_SUM_LOW == 750
ARB_SUM_THRESHOLD == 920
ARB_PRICE_BUFFER == 10
ARB_KALSHI_MIN == 1
ARB_POLY_MIN == 1
POLYMARKET_MIN_USD == 1
\* KALSHI_MONITOR_INTERVAL_MS, default "200", in units of 100 ms.
intervalMs == 2

Slots == 0..MaxSlot
Tickers == Slots
Slugs == Slots
NoTicker == -1
NoSlug == -1
Legs == {"UP", "DOWN"}
Keys == Tickers \X Legs

Max(a, b) == IF a >= b THEN a ELSE b
Min(a, b) == IF a <= b THEN a ELSE b

(***************************************************************************)
(* Snapshots.  A venue's snapshot is null in the source when the read      *)
(* failed; here it is a record with present = FALSE.                       *)
(***************************************************************************)
AbsentKalshi == [present |-> FALSE, upAskCents |-> 0, downAskCents |-> 0]
AbsentPoly == [present |-> FALSE, slug |-> NoSlug, upAsk |-> 0, downAsk |-> 0]
MarketPrices(up, down) == [present |-> TRUE, upAskCents |-> up, downAskCents |-> down]
PolymarketPrices(slug, up, down) ==
    [present |-> TRUE, slug |-> slug, upAsk |-> up, downAsk |-> down]
DualMarketPrices(t, k, pm) == [kalshiTicker |-> t, kalshi |-> k, polymarket |-> pm]

\* Venue reads <<Kalshi up cents, Kalshi down cents, Polymarket up mils, Polymarket down mils>>.
PriceCases ==
    { <<40, 55, 380, 560>>,    \* sums 960 / 930: neither leg in band
      <<40, 55, 380, 480>>,    \* sums 880 / 930: leg 1 only
      <<40, 45, 400, 450>>,    \* sums 850 / 850: both legs in band
      <<27, 55, 380, 480>>,    \* sums 750 / 930: leg 1 exactly at the lower bound
      <<40, 45, 400, 520>>,    \* sums 920 / 850: leg 1 exactly at the upper bound
      <<27, 45, 300, 470>>,    \* sums 740 / 750: leg 1 below, leg 2 at the lower bound
      <<40, 54, 380, 560>> }   \* sums 960 / 920: leg 2 exactly at the upper bound

\* The snapshots a caller may pass to checkArbAndPlaceOrders for ticker t with slug s.
SnapshotsFor(t, s) ==
    { DualMarketPrices(t, MarketPrices(c[1], c[2]), PolymarketPrices(s, c[3], c[4])) :
        c \in PriceCases }
    \cup { DualMarketPrices(t, MarketPrices(80, 21), AbsentPoly),
           DualMarketPrices(t, AbsentKalshi, PolymarketPrices(s, 380, 480)),
           DualMarketPrices(t, AbsentKalshi, AbsentPoly) }

\* The reads the monitor's fetch may return (a subset, to keep the monitor small).
MonitorCases ==
    { <<40, 55, 380, 560>>, <<40, 55, 380, 480>>, <<40, 45, 400, 520>> }

(***************************************************************************)
(* Process configuration (environment variables and monitor options).      *)
(***************************************************************************)
ArbConfigs ==
    { [dryRun |-> FALSE, polyConfigured |-> TRUE, arbSize |-> 1],
      [dryRun |-> FALSE, polyConfigured |-> TRUE, arbSize |-> 3],
      [dryRun |-> FALSE, polyConfigured |-> FALSE, arbSize |-> 1],
      [dryRun |-> TRUE, polyConfigured |-> TRUE, arbSize |-> 1] }

\* KALSHI_MONITOR_TICKER (NoTicker when unset) and KALSHI_MONITOR_NO_RESTART unset/set.
\* With a ticker given the restart flag is never read, so one value of it is kept.
MonitorOptions ==
    { [kalshiTicker |-> NoTicker, restartProcessOnQuarterHour |-> TRUE],
      [kalshiTicker |-> NoTicker, restartProcessOnQuarterHour |-> FALSE],
      [kalshiTicker |-> 0, restartProcessOnQuarterHour |-> TRUE] }

\* The (configuration, options) pairs the monitor is run with: every option with
\* live trading of 3 contracts, and dry-run and Polymarket-unconfigured runs with
\* in-process market refresh.
MonitorRuns ==
    { <<c, o>> \in ArbConfigs \X MonitorOptions :
        \/ c.arbSize = 3
        \/ /\ c.dryRun \/ ~c.polyConfigured
           /\ o.kalshiTicker = NoTicker /\ ~o.restartProcessOnQuarterHour }

VARIABLES
    cfg,                  \* ARB_DRY_RUN, POLYMARKET_PRIVATE_KEY/PROXY set, ARB_SIZE
    options,              \* the options main passes to startDualPriceMonitor
    slot,                 \* the wall clock's current 15-minute slot
    mainPc,               \* "starting", "running" or "exited"
    lockHeld,             \* logs/monitor.lock is held by this process
    spawned,              \* replacement processes spawned
    procLog,              \* what the process did to the lock, its child and itself, in order
    lastSlot,             \* startDualPriceMonitor: let lastSlot
    kalshiTicker,         \* startDualPriceMonitor: let kalshiTicker
    stopped,              \* startDualPriceMonitor: let stopped
    pollInProgress,       \* startDualPriceMonitor: let pollInProgress
    timers,               \* pending setTimeout(poll, ...) timers
    pollPc,               \* the await poll is suspended at: "idle", "markets", "fetch"
    fetches,              \* getDualPrices invocations in flight
    fetchSlug,            \* slug computed by the fetch in flight
    polyPc,               \* getPolymarketAskPrices in flight: "idle", "gamma", "book", "failed"
    now,                  \* Date.now()
    startedAt,            \* poll: const startedAt
    delay,                \* the delay given to the last setTimeout(poll, delay)
    onErrorCalls,         \* calls of options.onError
    kalshiRead,           \* getDualPrices called directly: the getMarketPrices promise
    polyRead,             \* getDualPrices called directly: the getPolymarketAskPrices promise
    lookups,              \* getTokenIdsForSlugCached called directly: the calls made, in order
    input,                \* a function called directly: its arguments and environment
    output,               \* a function called directly: what it returned and did
    upArbDoneTickers,     \* Set<string>, leg 1
    downArbDoneTickers,   \* Set<string>, leg 2
    tokenIdsCache,        \* let tokenIdsCache: the single entry {slug, ids}, or NoEntry
    dual,                 \* the snapshot last passed to checkArbAndPlaceOrders
    tasks,                \* per (ticker, leg): the unsettled execution of that leg
    kalshiOrders,         \* per (ticker, leg): createOrder requests sent to Kalshi
    polyCalls             \* per (ticker, leg): calls of placePolymarketOrder

arbVars == <<upArbDoneTickers, downArbDoneTickers, tokenIdsCache, dual, tasks,
             kalshiOrders, polyCalls>>
procVars == <<mainPc, lockHeld, spawned, procLog>>
pollVars == <<lastSlot, kalshiTicker, stopped, pollInProgress, timers, pollPc, fetches,
              fetchSlug, polyPc>>
schedVars == <<now, startedAt, delay, onErrorCalls>>
fnVars == <<input, output>>
readVars == <<kalshiRead, polyRead, lookups, fnVars>>
envVars == <<cfg, options, slot>>
vars == <<envVars, procVars, pollVars, schedVars, readVars, arbVars>>

(***************************************************************************)
(* Arbitrage detector                                                      *)
(***************************************************************************)
\* Variant of inRange with the upper bound included.
inRangeClosed(sum) == sum >= ARB_SUM_LOW /\ sum <= ARB_SUM_THRESHOLD

inRange(sum) == sum >= ARB_SUM_LOW /\ sum < ARB_SUM_THRESHOLD

\* Variant of BothPresent that tests the Kalshi snapshot only.
KalshiPresent(p) == p.kalshi.present

BothPresent(p) == p.kalshi.present /\ p.polymarket.present

kUp(p) == p.kalshi.upAskCents * 10
kDown(p) == p.kalshi.downAskCents * 10
polyUp(p) == p.polymarket.upAsk
polyDown(p) == p.polymarket.downAsk
sumUp(p) == kUp(p) + polyDown(p)
sumDown(p) == kDown(p) + polyUp(p)

kalshiContracts == Max(ARB_KALSHI_MIN, cfg.arbSize)
polySize == Max(ARB_POLY_MIN, cfg.arbSize)

\* Variant of kalshiPriceCents without the buffer.
kalshiPriceCentsNoBuffer(askMils) == (askMils + 5) \div 10

\* Math.round((ask + buffer) * 100), in cents.
kalshiPriceCents(askMils) == (askMils + ARB_PRICE_BUFFER + 5) \div 10
\* Math.min(1, ask + buffer), in mils.
polyPrice(askMils) == Min(1000, askMils + ARB_PRICE_BUFFER)

\* placeOrder: Math.max(1, Math.min(99, priceCents)), the price sent to Kalshi.
placeOrderPrice(priceCents) == Max(1, Min(99, priceCents))

\* roundPriceToTickSize with the default tick "0.01": Math.round(price * 100) / 100,
\* in mils; the price sent to Polymarket.
roundPriceToTickSize(priceMils) == ((priceMils + 5) \div 10) * 10

\* Variant of FiredLegs without the has() checks.
FiredLegsUnchecked(p, upDone, downDone) ==
    IF ~(p.kalshi.present /\ p.polymarket.present) THEN {}
    ELSE IF inRange(sumUp(p)) THEN {"UP"}
    ELSE IF inRange(sumDown(p)) THEN {"DOWN"}
    ELSE {}

\* Variant of FiredLegs without the return that ends leg 1: leg 2 is evaluated too.
FiredLegsBoth(p, upDone, downDone) ==
    IF ~(p.kalshi.present /\ p.polymarket.present) THEN {}
    ELSE (IF inRange(sumUp(p)) /\ p.kalshiTicker \notin upDone THEN {"UP"} ELSE {})
         \cup (IF inRange(sumDown(p)) /\ p.kalshiTicker \notin downDone
                THEN {"DOWN"} ELSE {})

\* Variant of FiredLegs in which dry-run detects nothing.
FiredLegsLiveOnly(p, upDone, downDone) ==
    IF cfg.dryRun \/ ~BothPresent(p) THEN {}
    ELSE IF inRange(sumUp(p))
         THEN (IF p.kalshiTicker \in upDone THEN {} ELSE {"UP"})
    ELSE IF inRange(sumDown(p))
         THEN (IF p.kalshiTicker \in downDone THEN {} ELSE {"DOWN"})
    ELSE {}

\* The legs one call fires, given the two execution-state sets: the null check,
\* then leg 1 (has / add / return), then leg 2.
FiredLegs(p, upDone, downDone) ==
    IF ~BothPresent(p) THEN {}
    ELSE IF inRange(sumUp(p))
         THEN (IF p.kalshiTicker \in upDone THEN {} ELSE {"UP"})
    ELSE IF inRange(sumDown(p))
         THEN (IF p.kalshiTicker \in downDone THEN {} ELSE {"DOWN"})
    ELSE {}


(***************************************************************************)
(* Order placement                                                         *)
(***************************************************************************)
Bump(n) == IF n < CountCap THEN n + 1 ELSE n

\* An execution of one leg from its first await on.  kalshi: the placeOrder
\* promise; tok: the getTokenIdsForSlugCached promise; poly: placePolymarketOrder.
Idle == [kalshi |-> "none", tok |-> "none", poly |-> "none", slug |-> NoSlug, price |-> 0]
InFlight == { k \in Keys : tasks[k] # Idle }

\* The token ids Gamma holds for the market of a slug.
fetchTokenIdsForSlug(slug) == [upTokenId |-> 2 * slug, downTokenId |-> 2 * slug + 1]

NoIds == [upTokenId |-> -1, downTokenId |-> -1]
\* let tokenIdsCache = null
NoEntry == [slug |-> NoSlug, ids |-> NoIds]

\* Variant of CacheHit that takes any cached entry for a hit.
CacheHitAnyEntry(slug) == tokenIdsCache # NoEntry

\* tokenIdsCache?.slug === slug
CacheHit(slug) == tokenIdsCache.slug = slug

\* Variant of CacheStore that keeps the first entry ever stored.
CacheStoreOnce(slug, fresh) ==
    IF tokenIdsCache = NoEntry THEN [slug |-> slug, ids |-> fresh] ELSE tokenIdsCache

\* tokenIdsCache = { slug, ...fresh }
CacheStore(slug, fresh) == [slug |-> slug, ids |-> fresh]

\* Variant of OnLookupFailed that drops the cached entry.
OnLookupFailedClear(cache) == NoEntry

\* What a failed fetchTokenIdsForSlug does to the cache: the assignment is not reached.
OnLookupFailed(cache) == cache

\* getTokenIdsForSlugCached up to its await: a hit resolves at once.
TokenLookup(slug) == IF CacheHit(slug) THEN "ok" ELSE "pending"

\* Variant of placePolymarketOrder in which ARB_DRY_RUN wins over options.forcePlace.
placePolymarketOrderNoForce(price, size, forcePlace, clientOk) ==
    LET minUsd == IF POLYMARKET_MIN_USD > 0 THEN POLYMARKET_MIN_USD ELSE 1
    IN  IF ~cfg.polyConfigured THEN "null"
        ELSE IF cfg.dryRun THEN "null"
        ELSE IF price * size < minUsd * 1000 THEN "below_min"
        ELSE IF ~clientOk THEN "setup_error"
        ELSE "posting"

\* placePolymarketOrder up to the request: what the call does with the order.
\* forcePlace: options?.forcePlace; clientOk: the dynamic import and
\* getClobClient() succeed.
placePolymarketOrder(price, size, forcePlace, clientOk) ==
    LET minUsd == IF POLYMARKET_MIN_USD > 0 THEN POLYMARKET_MIN_USD ELSE 1
    IN  IF ~cfg.polyConfigured THEN "null"
        ELSE IF cfg.dryRun /\ ~forcePlace THEN "null"
        ELSE IF price * size < minUsd * 1000 THEN "below_min"
        ELSE IF ~clientOk THEN "setup_error"
        ELSE "posting"

\* Variant of PromiseAllResolved that waits for the token ids only.
TokenResolved(task) == task.tok = "ok"

\* await Promise.all([placeOrder(...), getTokenIdsForSlugCached(...)]) has resolved.
PromiseAllResolved(task) == task.kalshi \in {"ok", "error"} /\ task.tok = "ok"

\* The outcomes of building the CLOB client that matter to a call made with task.
ClientOutcomes(task) ==
    IF /\ task.poly = "notcalled" /\ PromiseAllResolved(task)
       /\ placePolymarketOrder(task.price, polySize, FALSE, TRUE) = "posting"
    THEN BOOLEAN ELSE {TRUE}

\* Variant of Continue that gives up the Polymarket order when the Kalshi order failed.
ContinueIfKalshiOk(task, clientOk) ==
    IF task.poly = "notcalled" /\ task.kalshi = "ok" /\ task.tok = "ok"
    THEN [task EXCEPT !.poly = placePolymarketOrder(task.price, polySize, FALSE, clientOk)]
    ELSE task

\* The code after the Promise.all: call placePolymarketOrder once it resolved.
Continue(task, clientOk) ==
    IF task.poly = "notcalled" /\ PromiseAllResolved(task)
    THEN [task EXCEPT !.poly = placePolymarketOrder(task.price, polySize, FALSE, clientOk)]
    ELSE task

\* Variant of OnOrderFailed that rolls the entry back so that the leg is retried.
OnOrderFailedRetry(done, t) == done \ {t}

\* What a failed order does to the execution-state set of its leg: it is logged only.
OnOrderFailed(done, t) == done

\* The effect of one step of the execution of key k that turns its record into next.
TaskStep(k, next, failed) ==
    /\ tasks' = [tasks EXCEPT ![k] = next]
    /\ polyCalls' = [polyCalls EXCEPT ![k] =
                        IF tasks[k].poly = "notcalled" /\ next.poly # "notcalled"
                        THEN Bump(@) ELSE @]
    /\ upArbDoneTickers' =
           IF failed /\ k[2] = "UP" THEN OnOrderFailed(upArbDoneTickers, k[1])
           ELSE upArbDoneTickers
    /\ downArbDoneTickers' =
           IF failed /\ k[2] = "DOWN" THEN OnOrderFailed(downArbDoneTickers, k[1])
           ELSE downArbDoneTickers

\* Variant of MarkDone that does not record the ticker.
MarkDoneSkipped(done, t) == done

\* Set.add
MarkDone(done, t) == done \cup {t}

\* checkArbAndPlaceOrders up to its first await.
checkArbAndPlaceOrders(p, clientOk) ==
    LET t == p.kalshiTicker
        legs == FiredLegs(p, upArbDoneTickers, downArbDoneTickers)
        fired(k) == k[1] = t /\ k[2] \in legs
        started(leg) ==
            Continue([kalshi |-> "pending",
                      tok |-> TokenLookup(p.polymarket.slug),
                      poly |-> "notcalled",
                      slug |-> p.polymarket.slug,
                      price |-> polyPrice(IF leg = "UP" THEN polyDown(p) ELSE polyUp(p))],
                     clientOk)
    IN  /\ dual' = p
        /\ upArbDoneTickers' =
               IF "UP" \in legs THEN MarkDone(upArbDoneTickers, t) ELSE upArbDoneTickers
        /\ downArbDoneTickers' =
               IF "DOWN" \in legs THEN MarkDone(downArbDoneTickers, t) ELSE downArbDoneTickers
        /\ IF legs = {} \/ cfg.dryRun
           THEN UNCHANGED <<tasks, kalshiOrders, polyCalls>>
           ELSE /\ tasks' = [k \in Keys |-> IF fired(k) THEN started(k[2]) ELSE tasks[k]]
                /\ kalshiOrders' =
                       [k \in Keys |-> IF fired(k) THEN Bump(kalshiOrders[k])
                                       ELSE kalshiOrders[k]]
                /\ polyCalls' =
                       [k \in Keys |-> IF fired(k) /\ started(k[2]).poly # "notcalled"
                                       THEN Bump(polyCalls[k]) ELSE polyCalls[k]]
        /\ UNCHANGED tokenIdsCache

\* Whether a call with p may be delivered under the cap on unsettled executions.
WithinCap(p, cap) ==
    LET legs == FiredLegs(p, upArbDoneTickers, downArbDoneTickers)
    IN  \/ legs = {}
        \/ cfg.dryRun
        \/ \A leg \in legs : <<p.kalshiTicker, leg>> \in InFlight
        \/ Cardinality(InFlight) < cap

\* placeOrder: ordersApi.createOrder settles (resolved, or rejected and caught).
KalshiSettled(k, res, clientOk) ==
    /\ mainPc # "exited"
    /\ tasks[k].kalshi = "pending"
    /\ TaskStep(k, Continue([tasks[k] EXCEPT !.kalshi = res], clientOk), res = "error")
    /\ UNCHANGED <<envVars, procVars, pollVars, schedVars, readVars, tokenIdsCache, dual, kalshiOrders>>

\* getTokenIdsForSlugCached after a miss: fetchTokenIdsForSlug settles.
TokenSettled(k, ok, clientOk) ==
    /\ mainPc # "exited"
    /\ tasks[k].tok = "pending"
    /\ IF ok
       THEN /\ tokenIdsCache' = CacheStore(tasks[k].slug, fetchTokenIdsForSlug(tasks[k].slug))
            /\ TaskStep(k, Continue([tasks[k] EXCEPT !.tok = "ok"], clientOk), FALSE)
       ELSE /\ tokenIdsCache' = OnLookupFailed(tokenIdsCache)
            /\ TaskStep(k, [tasks[k] EXCEPT !.tok = "fail"], FALSE)
    /\ UNCHANGED <<envVars, procVars, pollVars, schedVars, readVars, dual, kalshiOrders>>

\* placePolymarketOrder: clobClient.createAndPostOrder settles.
PolySettled(k, res) ==
    /\ mainPc # "exited"
    /\ tasks[k].poly = "posting"
    /\ TaskStep(k, [tasks[k] EXCEPT !.poly = res], res = "error")
    /\ UNCHANGED <<envVars, procVars, pollVars, schedVars, readVars, tokenIdsCache, dual, kalshiOrders>>

\* The execution has no step left: the Polymarket call returned, or the token
\* lookup threw (the Promise.all rejects) and the Kalshi request has settled.
Returned(task) ==
    \/ task.poly \in {"null", "below_min", "setup_error", "ok", "error"}
    \/ task.tok = "fail" /\ task.kalshi # "pending"

\* The promise returned by checkArbAndPlaceOrders settles (onPrices' .catch logs a rejection).
ArbSettled(k) ==
    /\ mainPc # "exited"
    /\ Returned(tasks[k])
    /\ tasks' = [tasks EXCEPT ![k] = Idle]
    /\ UNCHANGED <<envVars, procVars, pollVars, schedVars, readVars, upArbDoneTickers, downArbDoneTickers,
                   tokenIdsCache, dual, kalshiOrders, polyCalls>>

KalshiNext ==
    \E k \in Keys, res \in {"ok", "error"} :
      \E clientOk \in ClientOutcomes([tasks[k] EXCEPT !.kalshi = res]) :
         KalshiSettled(k, res, clientOk)

TokenNext ==
    \E k \in Keys, ok \in BOOLEAN :
      \E clientOk \in ClientOutcomes([tasks[k] EXCEPT !.tok = "ok"]) :
         TokenSettled(k, ok, clientOk)

PolyNext == \E k \in Keys, res \in {"ok", "error"} : PolySettled(k, res)

ArbSettledNext == \E k \in Keys : ArbSettled(k)

NoSnapshot == DualMarketPrices(NoTicker, AbsentKalshi, AbsentPoly)

InitArbState ==
    /\ upArbDoneTickers = {}
    /\ downArbDoneTickers = {}
    /\ tokenIdsCache = NoEntry
    /\ dual = NoSnapshot
    /\ tasks = [k \in Keys |-> Idle]
    /\ kalshiOrders = [k \in Keys |-> 0]
    /\ polyCalls = [k \in Keys |-> 0]

(***************************************************************************)
(* Monitor: main, startDualPriceMonitor, poll                              *)
(***************************************************************************)
\* Variant of useAutoRefresh that is on whether or not a ticker was given.
useAutoRefreshAlways == TRUE

\* const useAutoRefresh = !options.kalshiTicker
useAutoRefresh == options.kalshiTicker = NoTicker
\* options.restartProcessOnQuarterHour ?? useAutoRefresh: main always passes a value.
restartOnQuarterHour == options.restartProcessOnQuarterHour

\* What getBitcoinUpDownMarkets may produce: the first open market's ticker,
\* MarketsEmpty (no open market) or MarketsThrows (the request fails).
MarketsEmpty == -1
MarketsThrows == -2
MarketsOutcomes == {slot, MarketsEmpty, MarketsThrows}

\* No function is called directly.
NoCall == [fn |-> "none"]

\* A venue read of a getDualPrices call made directly: not started, awaited, settled.
ReadIdle(absent) == [state |-> "idle", value |-> absent]
ReadPending(absent) == [state |-> "pending", value |-> absent]
ReadDone(v) == [state |-> "done", value |-> v]

InitSchedState ==
    /\ now = 0 /\ startedAt = 0 /\ delay = 0 /\ onErrorCalls = 0
    /\ kalshiRead = ReadIdle(AbsentKalshi) /\ polyRead = ReadIdle(AbsentPoly)
    /\ lookups = <<>>
    /\ input = NoCall /\ output = NoCall
    /\ procLog = <<>>

InitMonitorFrom(runs) ==
    /\ \E run \in runs : cfg = run[1] /\ options = run[2]
    /\ slot = 0
    /\ mainPc = "starting" /\ lockHeld = TRUE /\ spawned = 0
    /\ lastSlot = 0 /\ kalshiTicker = options.kalshiTicker /\ stopped = FALSE
    /\ pollInProgress = FALSE /\ timers = 0 /\ pollPc = "idle" /\ fetches = 0
    /\ fetchSlug = NoSlug /\ polyPc = "idle"
    /\ InitSchedState
    /\ InitArbState

InitMonitor == InitMonitorFrom(MonitorRuns)

\* The wall clock passes a quarter-hour boundary.
ClockTick ==
    /\ slot < MaxSlot
    /\ slot' = slot + 1
    /\ UNCHANGED <<cfg, options, procVars, pollVars, schedVars, readVars, arbVars>>

\* Date.now() advances.
TimePasses ==
    /\ mainPc # "exited"
    /\ now < MaxNow
    /\ now' = now + 1
    /\ UNCHANGED <<envVars, procVars, pollVars, startedAt, delay, onErrorCalls, readVars,
                   arbVars>>

\* startDualPriceMonitor from its startup resolution to its return.
StartMonitor(markets) ==
    /\ mainPc = "starting"
    /\ IF useAutoRefresh /\ markets \in {MarketsEmpty, MarketsThrows}
       THEN \* startDualPriceMonitor rejects; main().catch exits with status 1
            /\ mainPc' = "exited"
            /\ procLog' = Append(procLog, "exit1")
            /\ UNCHANGED <<kalshiTicker, timers, delay>>
       ELSE /\ mainPc' = "running"
            /\ kalshiTicker' = IF useAutoRefresh THEN markets ELSE kalshiTicker
            /\ timers' = timers + 1
            /\ delay' = 0
            /\ UNCHANGED procLog
    /\ UNCHANGED <<envVars, lockHeld, spawned, lastSlot, stopped, pollInProgress, pollPc,
                   fetches, fetchSlug, polyPc, now, startedAt, onErrorCalls, readVars,
                   arbVars>>

\* releaseMonitorLock(): the lock file is removed.
releaseMonitorLock == lockHeld' = FALSE

\* Variant of spawnAndExit that spawns the replacement while the lock is still held.
spawnBeforeRelease ==
    /\ releaseMonitorLock
    /\ spawned' = spawned + 1
    /\ mainPc' = "exited"
    /\ procLog' = procLog \o <<"spawn", "release", "exit0">>

\* spawnAndExit: releaseMonitorLock(); spawn(...); child.unref(); process.exit(0).
spawnAndExit ==
    /\ releaseMonitorLock
    /\ spawned' = spawned + 1
    /\ mainPc' = "exited"
    /\ procLog' = procLog \o <<"release", "spawn", "exit0">>

\* poll calls getDualPrices: both venue reads start.
StartFetch ==
    /\ pollPc' = "fetch"
    /\ fetches' = fetches + 1
    /\ fetchSlug' = slot
    /\ polyPc' = IF CacheHit(slot) THEN "book" ELSE "gamma"

\* Variant of scheduleDelay that waits a full interval after the tick's end.
scheduleDelayFromEnd(started) == intervalMs

\* scheduleNext: Math.max(0, intervalMs - (Date.now() - startedAt)).
scheduleDelay(started) == Max(0, intervalMs - (now - started))

\* Variant of scheduleNext without the test of stopped.
scheduleNextUnconditional ==
    /\ timers' = timers + 1
    /\ delay' = Max(0, intervalMs - (now - startedAt))

\* scheduleNext(startedAt)
scheduleNext ==
    IF stopped
    THEN UNCHANGED <<timers, delay>>
    ELSE /\ timers' = timers + 1
         /\ delay' = scheduleDelay(startedAt)

\* Variant of PollTick: a repeating timer (setInterval) and no pollInProgress test.
PollTickInterval ==
    /\ mainPc = "running"
    /\ timers > 0
    /\ ~stopped
    /\ StartFetch
    /\ pollInProgress' = TRUE
    /\ UNCHANGED <<envVars, procVars, lastSlot, kalshiTicker, stopped, timers, schedVars,
                   readVars, arbVars>>

\* A setTimeout(poll, delay) timer fires: poll up to its first await.
PollTick ==
    /\ mainPc = "running"
    /\ timers > 0
    /\ pollPc = "idle" \/ pollInProgress
    /\ timers' = timers - 1
    /\ IF pollInProgress
       THEN UNCHANGED <<procVars, lastSlot, kalshiTicker, stopped, pollInProgress, pollPc,
                        fetches, fetchSlug, polyPc, startedAt>>
       ELSE /\ startedAt' = now
            /\ IF stopped
               THEN UNCHANGED <<procVars, lastSlot, kalshiTicker, stopped, pollInProgress,
                                pollPc, fetches, fetchSlug, polyPc>>
               ELSE IF useAutoRefresh /\ slot # lastSlot
               THEN /\ lastSlot' = slot
                    /\ pollInProgress' = TRUE
                    /\ IF restartOnQuarterHour
                       THEN /\ spawnAndExit
                            /\ UNCHANGED <<kalshiTicker, stopped, pollPc, fetches, fetchSlug,
                                           polyPc>>
                       ELSE /\ pollPc' = "markets"
                            /\ UNCHANGED <<procVars, kalshiTicker, stopped, fetches,
                                           fetchSlug, polyPc>>
               ELSE /\ StartFetch
                    /\ pollInProgress' = TRUE
                    /\ UNCHANGED <<procVars, lastSlot, kalshiTicker, stopped>>
    /\ UNCHANGED <<envVars, now, delay, onErrorCalls, readVars, arbVars>>

\* poll resumes from "await getBitcoinUpDownMarkets()" at a slot transition.
\* crash: the runtime ends the process on the unhandled rejection of poll().
MarketsSettled(markets, crash) ==
    /\ mainPc = "running"
    /\ pollPc = "markets"
    /\ crash => markets = MarketsThrows
    /\ IF markets = MarketsThrows
       THEN \* poll rejects; only the finally block runs
            /\ pollInProgress' = FALSE
            /\ pollPc' = "idle"
            /\ IF crash
               THEN /\ mainPc' = "exited"
                    /\ procLog' = Append(procLog, "crash")
               ELSE UNCHANGED <<mainPc, procLog>>
            /\ UNCHANGED <<kalshiTicker, timers, delay, fetches, fetchSlug, polyPc>>
       ELSE LET ticker == IF markets = MarketsEmpty THEN kalshiTicker ELSE markets
            IN  /\ kalshiTicker' = ticker
                /\ UNCHANGED <<mainPc, procLog>>
                /\ IF stopped
                   THEN /\ scheduleNext
                        /\ pollInProgress' = FALSE
                        /\ pollPc' = "idle"
                        /\ UNCHANGED <<fetches, fetchSlug, polyPc>>
                   ELSE /\ StartFetch
                        /\ UNCHANGED <<pollInProgress, timers, delay>>
    /\ UNCHANGED <<envVars, lockHeld, spawned, lastSlot, stopped, now, startedAt,
                   onErrorCalls, readVars, arbVars>>

\* getPolymarketAskPrices: the Gamma lookup of a slug missing from the cache settles.
GammaSettled(ok) ==
    /\ mainPc = "running"
    /\ pollPc = "fetch" /\ polyPc = "gamma"
    /\ polyPc' = IF ok THEN "book" ELSE "failed"
    /\ tokenIdsCache' = IF ok THEN CacheStore(fetchSlug, fetchTokenIdsForSlug(fetchSlug))
                        ELSE OnLookupFailed(tokenIdsCache)
    /\ polyRead' = IF polyRead.state = "pending" /\ ~ok THEN ReadDone(AbsentPoly) ELSE polyRead
    /\ UNCHANGED <<envVars, procVars, lastSlot, kalshiTicker, stopped, pollInProgress, timers,
                   pollPc, fetches, fetchSlug, schedVars, kalshiRead, lookups, fnVars, upArbDoneTickers,
                   downArbDoneTickers, dual, tasks, kalshiOrders, polyCalls>>

\* The snapshots getDualPrices may resolve with: getMarketPrices gives prices or
\* null; getPolymarketAskPrices gives null unless the token ids were resolved.
FetchResults ==
    LET both == { DualMarketPrices(kalshiTicker, MarketPrices(c[1], c[2]),
                                   PolymarketPrices(fetchSlug, c[3], c[4])) :
                    c \in MonitorCases }
        polyOnly == { DualMarketPrices(kalshiTicker, AbsentKalshi,
                                       PolymarketPrices(fetchSlug, 380, 480)) }
        kalshiOnly == { DualMarketPrices(kalshiTicker, MarketPrices(40, 55), AbsentPoly),
                        DualMarketPrices(kalshiTicker, AbsentKalshi, AbsentPoly) }
    IN  IF polyPc = "book" THEN both \cup polyOnly \cup kalshiOnly ELSE kalshiOnly

\* Variant of OnCallbackThrew in which the exception leaves poll: no successor.
OnCallbackThrewEscapes ==
    /\ onErrorCalls' = onErrorCalls
    /\ UNCHANGED <<timers, delay>>

\* poll's catch around options.onPrices(dual): options.onError?.(e), then scheduleNext.
OnCallbackThrew ==
    /\ onErrorCalls' = Bump(onErrorCalls)
    /\ scheduleNext

\* Variant of FetchSettled without the test of stopped after the fetch: the
\* snapshot of a stopped monitor is delivered as well.
FetchSettledIgnoresStop(p, threw) ==
    /\ mainPc = "running"
    /\ pollPc = "fetch" /\ polyPc \in {"book", "failed"}
    /\ polyRead.state = "idle"
    /\ fetches' = fetches - 1
    /\ pollPc' = "idle"
    /\ polyPc' = "idle"
    /\ pollInProgress' = FALSE
    /\ IF threw
       THEN /\ OnCallbackThrew
            /\ UNCHANGED arbVars
       ELSE /\ WithinCap(p, MaxInFlight)
            /\ checkArbAndPlaceOrders(p, TRUE)
            /\ scheduleNext
            /\ UNCHANGED onErrorCalls
    /\ UNCHANGED <<envVars, procVars, lastSlot, kalshiTicker, stopped, fetchSlug, now,
                   startedAt, readVars>>

\* poll resumes from "await getDualPrices(...)": the callback, scheduleNext, finally.
\* threw: onPrices throws before it reaches checkArbAndPlaceOrders.
FetchSettled(p, threw) ==
    /\ mainPc = "running"
    /\ pollPc = "fetch" /\ polyPc \in {"book", "failed"}
    /\ polyRead.state = "idle"
    /\ fetches' = fetches - 1
    /\ pollPc' = "idle"
    /\ polyPc' = "idle"
    /\ pollInProgress' = FALSE
    /\ IF stopped
       THEN /\ ~threw
            /\ UNCHANGED <<timers, delay, onErrorCalls, arbVars>>
       ELSE IF threw
       THEN /\ OnCallbackThrew
            /\ UNCHANGED arbVars
       ELSE /\ WithinCap(p, MaxInFlight)
            /\ checkArbAndPlaceOrders(p, TRUE)
            /\ scheduleNext
            /\ UNCHANGED onErrorCalls
    /\ UNCHANGED <<envVars, procVars, lastSlot, kalshiTicker, stopped, fetchSlug, now,
                   startedAt, readVars>>

\* The stop function returned by startDualPriceMonitor.
Stop ==
    /\ mainPc = "running"
    /\ ~stopped
    /\ stopped' = TRUE
    /\ UNCHANGED <<envVars, procVars, lastSlot, kalshiTicker, pollInProgress, timers, pollPc,
                   fetches, fetchSlug, polyPc, schedVars, readVars, arbVars>>

\* main's SIGINT handler: stop(); releaseMonitorLock(); process.exit(0).
Sigint ==
    /\ mainPc = "running"
    /\ stopped' = TRUE
    /\ releaseMonitorLock
    /\ mainPc' = "exited"
    /\ procLog' = procLog \o <<"release", "exit0">>
    /\ UNCHANGED <<envVars, spawned, lastSlot, kalshiTicker, pollInProgress, timers, pollPc,
                   fetches, fetchSlug, polyPc, schedVars, readVars, arbVars>>

Init == InitMonitor

Next ==
    \/ ClockTick
    \/ \E markets \in MarketsOutcomes : StartMonitor(markets)
    \/ PollTick
    \/ \E markets \in MarketsOutcomes, crash \in BOOLEAN : MarketsSettled(markets, crash)
    \/ \E ok \in BOOLEAN : GammaSettled(ok)
    \/ \E p \in FetchResults : FetchSettled(p, FALSE)
    \/ Stop
    \/ Sigint
    \/ KalshiNext
    \/ PolyNext
    \/ ArbSettledNext

Spec == Init /\ [][Next]_vars

(***************************************************************************)
(* SpecSched: the scheduler alone, with the clock and a callback that may  *)
(* throw; dry-run, so that no order is in flight                           *)
(***************************************************************************)
\* Dry-run with every option.
SchedRuns == { <<c, o>> \in ArbConfigs \X MonitorOptions : c.dryRun }

InitSched == InitMonitorFrom(SchedRuns)

\* The snapshots delivered to the callback: those without Kalshi prices, with and
\* without the Polymarket side; the detector then returns at its first test.
SchedResults == { p \in FetchResults : ~p.kalshi.present }

NextSched ==
    \/ ClockTick
    \/ TimePasses
    \/ \E markets \in MarketsOutcomes : StartMonitor(markets)
    \/ PollTick
    \/ \E markets \in MarketsOutcomes, crash \in BOOLEAN : MarketsSettled(markets, crash)
    \/ \E ok \in BOOLEAN : GammaSettled(ok)
    \/ \E p \in SchedResults, threw \in BOOLEAN : FetchSettled(p, threw)
    \/ Stop
    \/ Sigint

SpecSched == InitSched /\ [][NextSched]_vars

(***************************************************************************)
(* SpecArb: checkArbAndPlaceOrders called directly, any snapshot, any time *)
(***************************************************************************)
\* A process that imports the arb module without running the monitor.
InitArb ==
    /\ cfg \in ArbConfigs
    /\ options \in {[kalshiTicker |-> NoTicker, restartProcessOnQuarterHour |-> TRUE]}
    /\ slot = 0
    /\ mainPc = "running" /\ lockHeld = FALSE /\ spawned = 0
    /\ lastSlot = 0 /\ kalshiTicker = NoTicker /\ stopped = FALSE
    /\ pollInProgress = FALSE /\ timers = 0 /\ pollPc = "idle" /\ fetches = 0
    /\ fetchSlug = NoSlug /\ polyPc = "idle"
    /\ InitSchedState
    /\ InitArbState

\* The tickers direct calls are made for.
ArbTickers == {0}

\* One direct call with snapshot p.
ArbCallOf(p) ==
    /\ WithinCap(p, MaxArbInFlight)
    /\ checkArbAndPlaceOrders(p, TRUE)
    /\ UNCHANGED <<envVars, procVars, pollVars, schedVars, readVars>>

ArbSnapshots == UNION { SnapshotsFor(t, t) : t \in ArbTickers }

ArbCall == \E p \in ArbSnapshots : ArbCallOf(p)

NextArb == ArbCall \/ KalshiNext \/ TokenNext \/ PolyNext \/ ArbSettledNext

SpecArb == InitArb /\ [][NextArb]_vars

(***************************************************************************)
(* SpecFetch: getDualPrices called directly, its two reads settling in any *)
(* order                                                                   *)
(***************************************************************************)
InitFetch ==
    /\ InitArb
    /\ cfg.dryRun

\* What getMarketPrices resolves with: the market's asks, or null when the request
\* fails (catch) or the answer holds no market.
KalshiReads == {AbsentKalshi, MarketPrices(40, 55), MarketPrices(80, 21)}

\* What getPolymarketAskPrices resolves with once the token ids are known: the asks
\* of the slug, or null when a book request fails (catch) or a book has no ask.
BookReads(slug) == {AbsentPoly, PolymarketPrices(slug, 380, 480)}

\* Variant of getDualPrices that gives up both sides when one read failed.
getDualPricesAllOrNothing(ticker, kalshiResult, polymarketResult) ==
    IF kalshiResult.present /\ polymarketResult.present
    THEN DualMarketPrices(ticker, kalshiResult, polymarketResult)
    ELSE DualMarketPrices(ticker, AbsentKalshi, AbsentPoly)

\* getDualPrices: the value returned after the Promise.all.
getDualPrices(ticker, kalshiResult, polymarketResult) ==
    DualMarketPrices(ticker, kalshiResult, polymarketResult)

\* getDualPrices({kalshiTicker: t}) up to its await: both reads are started.
DualCall(t) ==
    /\ mainPc = "running"
    /\ pollPc = "idle"
    /\ StartFetch
    /\ kalshiTicker' = t
    /\ kalshiRead' = ReadPending(AbsentKalshi)
    /\ polyRead' = ReadPending(AbsentPoly)
    /\ UNCHANGED <<envVars, procVars, lastSlot, stopped, pollInProgress, timers, schedVars,
                   lookups, fnVars, arbVars>>

\* getMarketPrices settles.
KalshiReadSettled(r) ==
    /\ pollPc = "fetch"
    /\ kalshiRead.state = "pending"
    /\ kalshiRead' = ReadDone(r)
    /\ UNCHANGED <<envVars, procVars, pollVars, schedVars, polyRead, lookups, fnVars, arbVars>>

\* getPolymarketAskPrices: the two getBestAskForToken requests settle.
BookSettled(r) ==
    /\ pollPc = "fetch" /\ polyPc = "book"
    /\ polyRead.state = "pending"
    /\ polyRead' = ReadDone(r)
    /\ polyPc' = "idle"
    /\ UNCHANGED <<envVars, procVars, lastSlot, kalshiTicker, stopped, pollInProgress, timers,
                   pollPc, fetches, fetchSlug, schedVars, kalshiRead, lookups, fnVars, arbVars>>

\* The Promise.all of getDualPrices resolves and the snapshot is returned.
DualResolved ==
    /\ pollPc = "fetch"
    /\ kalshiRead.state = "done" /\ polyRead.state = "done"
    /\ dual' = getDualPrices(kalshiTicker, kalshiRead.value, polyRead.value)
    /\ pollPc' = "idle"
    /\ polyPc' = "idle"
    /\ fetches' = fetches - 1
    /\ UNCHANGED <<envVars, procVars, lastSlot, kalshiTicker, stopped, pollInProgress, timers,
                   fetchSlug, schedVars, readVars, upArbDoneTickers, downArbDoneTickers,
                   tokenIdsCache, tasks, kalshiOrders, polyCalls>>

NextFetch ==
    \/ ClockTick
    \/ \E t \in Tickers : DualCall(t)
    \/ \E r \in KalshiReads : KalshiReadSettled(r)
    \/ \E ok \in BOOLEAN : GammaSettled(ok)
    \/ \E r \in BookReads(fetchSlug) : BookSettled(r)
    \/ DualResolved

SpecFetch == InitFetch /\ [][NextFetch]_vars

(***************************************************************************)
(* SpecCache: getTokenIdsForSlugCached called directly, any slug, any time *)
(***************************************************************************)
InitCache == InitFetch

\* The direct call numbered i awaits fetchTokenIdsForSlug.
LookupPending(i) == lookups[i].state = "pending"

\* getTokenIdsForSlugCached(slug) up to its return (a hit) or its await (a miss).
\* external: fetchTokenIdsForSlug was called; overlapped: an earlier call was
\* still awaiting at that time.
LookupCall(slug) ==
    /\ mainPc = "running"
    /\ Len(lookups) < MaxLookups
    /\ lookups' = Append(lookups,
          [slug |-> slug,
           state |-> IF CacheHit(slug) THEN "returned" ELSE "pending",
           external |-> ~CacheHit(slug),
           overlapped |-> \E i \in 1..Len(lookups) : LookupPending(i),
           ids |-> IF CacheHit(slug) THEN tokenIdsCache.ids ELSE NoIds])
    /\ UNCHANGED <<envVars, procVars, pollVars, schedVars, kalshiRead, polyRead, fnVars, arbVars>>

\* getTokenIdsForSlugCached after a miss: fetchTokenIdsForSlug settles.
LookupSettled(i, ok) ==
    /\ i \in 1..Len(lookups)
    /\ LookupPending(i)
    /\ IF ok
       THEN /\ tokenIdsCache' = CacheStore(lookups[i].slug, fetchTokenIdsForSlug(lookups[i].slug))
            /\ lookups' = [lookups EXCEPT ![i].state = "returned",
                                          ![i].ids = fetchTokenIdsForSlug(lookups[i].slug)]
       ELSE /\ tokenIdsCache' = OnLookupFailed(tokenIdsCache)
            /\ lookups' = [lookups EXCEPT ![i].state = "threw"]
    /\ UNCHANGED <<envVars, procVars, pollVars, schedVars, kalshiRead, polyRead, fnVars,
                   upArbDoneTickers, downArbDoneTickers, dual, tasks, kalshiOrders, polyCalls>>

NextCache ==
    \/ \E slug \in Slugs : LookupCall(slug)
    \/ \E i \in 1..MaxLookups, ok \in BOOLEAN : LookupSettled(i, ok)

SpecCache == InitCache /\ [][NextCache]_vars

(***************************************************************************)
(* SpecPrice: the limit prices of one leg, for any pair of asks            *)
(***************************************************************************)
\* Polymarket asks in mils: the ends of the range, asks on and off the 0.01 grid.
PolyAsks == {0, 5, 380, 480, 485, 745, 910, 990, 995, 1000}

\* One leg of checkArbAndPlaceOrders with Kalshi ask kCents and Polymarket ask
\* pAsk: the band test, the two limit prices, and what placeOrder and
\* placePolymarketOrder make of them before the request.
PriceLeg(kCents, pAsk) ==
    /\ input = NoCall
    /\ input' = [fn |-> "PriceLeg", kalshiAskCents |-> kCents, polyAsk |-> pAsk]
    /\ output' = [fn |-> "PriceLeg",
                  fired |-> inRange(kCents * 10 + pAsk),
                  kalshiPriceCents |-> kalshiPriceCents(kCents * 10),
                  kalshiSent |-> placeOrderPrice(kalshiPriceCents(kCents * 10)),
                  polyPrice |-> polyPrice(pAsk),
                  polySent |-> roundPriceToTickSize(polyPrice(pAsk))]
    /\ UNCHANGED <<envVars, procVars, pollVars, schedVars, kalshiRead, polyRead, lookups,
                   arbVars>>

NextPrice == \E kCents \in 0..MaxAskCents, pAsk \in PolyAsks : PriceLeg(kCents, pAsk)

InitPrice ==
    /\ InitArb
    /\ ~cfg.dryRun /\ cfg.polyConfigured /\ cfg.arbSize = 1

SpecPrice == InitPrice /\ [][NextPrice]_vars

(***************************************************************************)
(* SpecChain: the monitor in restart mode together with the replacement    *)
(* processes it spawns; the venues' order counts outlive a process         *)
(***************************************************************************)
\* Live trading of 3 contracts, auto-resolution, restart at the quarter hour.
ChainRuns ==
    { <<c, o>> \in ArbConfigs \X MonitorOptions :
        /\ ~c.dryRun /\ c.polyConfigured /\ c.arbSize = 3
        /\ o.kalshiTicker = NoTicker /\ o.restartProcessOnQuarterHour }

InitChain == InitMonitorFrom(ChainRuns)

\* The first open market getBitcoinUpDownMarkets lists at startup: the market of
\* the current slot, or the one of the slot just ended while Kalshi still lists it
\* as open (the listing is taken as it comes; nothing selects by slot).
ChainMarkets == {slot} \cup (IF slot > 0 THEN {slot - 1} ELSE {})

\* What getBitcoinUpDownMarkets may produce at a startup of the chain: a listed
\* market, no open market, or a failed request.
ChainOutcomes == ChainMarkets \cup {MarketsEmpty, MarketsThrows}

\* The process spawned by spawnAndExit starts: main acquires the lock, the module
\* state is fresh, and startDualPriceMonitor reads the slot before it resolves the
\* ticker.  Requests the parent had in flight are lost with it; what it sent to
\* the venues stays sent.
ReplacementStarts ==
    /\ mainPc = "exited"
    /\ procLog = <<"release", "spawn", "exit0">>
    /\ mainPc' = "starting" /\ lockHeld' = TRUE /\ procLog' = <<>>
    /\ lastSlot' = slot /\ kalshiTicker' = options.kalshiTicker
    /\ stopped' = FALSE /\ pollInProgress' = FALSE /\ timers' = 0
    /\ pollPc' = "idle" /\ fetches' = 0 /\ fetchSlug' = NoSlug /\ polyPc' = "idle"
    /\ upArbDoneTickers' = {} /\ downArbDoneTickers' = {}
    /\ tokenIdsCache' = NoEntry
    /\ dual' = NoSnapshot
    /\ tasks' = [k \in Keys |-> Idle]
    /\ UNCHANGED <<envVars, spawned, schedVars, readVars, kalshiOrders, polyCalls>>

NextChain ==
    \/ ClockTick
    \/ \E markets \in ChainOutcomes : StartMonitor(markets)
    \/ PollTick
    \/ \E ok \in BOOLEAN : GammaSettled(ok)
    \/ \E p \in FetchResults : FetchSettled(p, FALSE)
    \/ KalshiNext
    \/ PolyNext
    \/ ArbSettledNext
    \/ ReplacementStarts

SpecChain == InitChain /\ [][NextChain]_vars

(***************************************************************************)
(* SpecPlace: direct calls of placePolymarketOrder                         *)
(***************************************************************************)
\* Limit prices (mils) and sizes of the calls: notionals below and above the minimum.
PlacePrices == {10, 500, 990}
PlaceSizes == {1, 3}

\* What a call of placePolymarketOrder returns and how many orders it posts.
\* resp: how createAndPostOrder settles; logOk: appendMonitorLogWithTimestamp
\* returns (its mkdirSync does not throw).  The dry-run return writes no log line;
\* every other return follows one, and a throw of the logger outside the try, or
\* inside the catch, leaves the function.
placePolymarketOrderResult(price, size, forcePlace, clientOk, resp, logOk) ==
    LET pre == placePolymarketOrder(price, size, forcePlace, clientOk)
        logs == pre # "null" \/ ~cfg.polyConfigured
    IN  [submitted |-> IF pre = "posting" THEN 1 ELSE 0,
         result |-> IF logs /\ ~logOk THEN "throws"
                    ELSE IF pre = "null" THEN "null"
                    ELSE IF pre = "posting" /\ resp = "ok" THEN "orderId"
                    ELSE "error"]

PlaceCall(price, size, forcePlace, clientOk, resp, logOk) ==
    /\ input = NoCall
    /\ input' = [fn |-> "placePolymarketOrder", price |-> price, size |-> size,
                  forcePlace |-> forcePlace, clientOk |-> clientOk, resp |-> resp,
                  logOk |-> logOk]
    /\ LET r == placePolymarketOrderResult(price, size, forcePlace, clientOk, resp, logOk)
       IN  output' = [fn |-> "placePolymarketOrder", submitted |-> r.submitted,
                      result |-> r.result]
    /\ UNCHANGED <<envVars, procVars, pollVars, schedVars, kalshiRead, polyRead, lookups, arbVars>>

NextPlace ==
    \E price \in PlacePrices, size \in PlaceSizes, forcePlace \in BOOLEAN,
       clientOk \in BOOLEAN, resp \in {"ok", "error"}, logOk \in BOOLEAN :
       PlaceCall(price, size, forcePlace, clientOk, resp, logOk)

InitPlace == InitArb

SpecPlace == InitPlace /\ [][NextPlace]_vars

(***************************************************************************)
(* SpecParse: what the two venue reads make of the responses they receive  *)
(***************************************************************************)
\* Field values of a response: undefined (field missing), the empty string, and
\* a string that parseFloat turns into NaN.  Numbers are cents (Kalshi integer
\* fields) or mils (dollar strings, Polymarket price strings).
Undefined == -1
EmptyString == -2
NotANumber == -3

\* dollarsToCents: 0 for a missing, empty or non-numeric string, else
\* Math.round(parseFloat(dollars) * 100).
dollarsToCents(dollars) ==
    IF dollars \in {Undefined, EmptyString, NotANumber} THEN 0
    ELSE (dollars + 5) \div 10

\* m.yes_ask ?? dollarsToCents(m.yes_ask_dollars)
AskOrDollars(ask, dollars) ==
    IF ask # Undefined THEN ask ELSE dollarsToCents(dollars)

\* The answers of marketApi.getMarket: the request fails, the answer holds no
\* market, or it holds a market record with any of its price fields missing.
KalshiResponses ==
    [status : {"fail", "nomarket"}, yes_ask : {Undefined}, yes_ask_dollars : {Undefined},
     no_ask : {Undefined}, no_ask_dollars : {Undefined}]
    \cup
    [status : {"market"}, yes_ask : {Undefined, 40},
     yes_ask_dollars : {Undefined, EmptyString, 404},
     no_ask : {Undefined, 55}, no_ask_dollars : {Undefined, 546}]

\* getMarketPrices: null in the catch and for a missing market, else the record's
\* asks read field by field.
getMarketPrices(res) ==
    IF res.status \in {"fail", "nomarket"} THEN AbsentKalshi
    ELSE MarketPrices(AskOrDollars(res.yes_ask, res.yes_ask_dollars),
                      AskOrDollars(res.no_ask, res.no_ask_dollars))

\* The answers of the CLOB book request of one token: not ok, no asks field, or
\* the price strings of the ask levels.
Books ==
    [status : {"notok", "noasks"}, asks : {<<>>}]
    \cup
    [status : {"asks"},
     asks : {<<>>, <<NotANumber>>, <<480>>, <<520, 480>>, <<NotANumber, 800>>}]

RECURSIVE BestOf(_, _)
\* The loop of getBestAskForToken: the least finite price, from best on.
BestOf(asks, best) ==
    IF asks = <<>> THEN best
    ELSE LET p == Head(asks)
         IN  BestOf(Tail(asks),
                    IF p # NotANumber /\ (best = Undefined \/ p < best) THEN p ELSE best)

\* getBestAskForToken: null (Undefined) or the best ask in mils.
getBestAskForToken(book) ==
    IF book.status \in {"notok", "noasks"} THEN Undefined
    ELSE BestOf(book.asks, Undefined)

\* The Gamma records of a slug: complete, without Up/Down outcomes, without token ids.
GammaRecords ==
    { [outcomes |-> <<"Up", "Down">>, clobTokenIds |-> <<"a", "b">>],
      [outcomes |-> <<"Yes", "No">>, clobTokenIds |-> <<"a", "b">>],
      [outcomes |-> <<>>, clobTokenIds |-> <<"a", "b">>],
      [outcomes |-> <<"Up", "Down">>, clobTokenIds |-> <<>>],
      [outcomes |-> <<"Down", "Up">>, clobTokenIds |-> <<"a">>] }

\* outcomes.indexOf(x), counted from 1; 0 when x is not there.
IndexOf(outcomes, x) ==
    IF \E i \in 1..Len(outcomes) : outcomes[i] = x
    THEN CHOOSE i \in 1..Len(outcomes) :
            outcomes[i] = x /\ \A j \in 1..(i - 1) : outcomes[j] # x
    ELSE 0

\* fetchTokenIdsForSlug past the request: it throws unless the record names both
\* outcomes and holds a token id at the index of each.
TokenIdsFound(data) ==
    LET upIdx == IndexOf(data.outcomes, "Up")
        downIdx == IndexOf(data.outcomes, "Down")
    IN  /\ upIdx > 0 /\ downIdx > 0
        /\ upIdx <= Len(data.clobTokenIds) /\ downIdx <= Len(data.clobTokenIds)

\* getPolymarketAskPrices: null when the token ids cannot be had (catch) or when
\* either book gives no best ask.
getPolymarketAskPrices(slug, data, upBook, downBook) ==
    IF ~TokenIdsFound(data) THEN AbsentPoly
    ELSE LET upAsk == getBestAskForToken(upBook)
             downAsk == getBestAskForToken(downBook)
         IN  IF upAsk = Undefined \/ downAsk = Undefined THEN AbsentPoly
             ELSE PolymarketPrices(slug, upAsk, downAsk)

\* The Polymarket snapshots a Kalshi read is paired with.
ParsePolys == {AbsentPoly, PolymarketPrices(0, 380, 480), PolymarketPrices(0, 800, 800)}

\* One Kalshi read and the detector's verdict on the snapshot it yields.
ReadKalshi(res, pm) ==
    /\ input = NoCall
    /\ input' = [fn |-> "getMarketPrices", res |-> res, polymarket |-> pm]
    /\ LET k == getMarketPrices(res)
       IN  output' = [fn |-> "getMarketPrices", snapshot |-> k,
                      fired |-> FiredLegs(DualMarketPrices(0, k, pm), {}, {})]
    /\ UNCHANGED <<envVars, procVars, pollVars, schedVars, kalshiRead, polyRead, lookups, arbVars>>

\* One Polymarket read.
ReadPolymarket(data, upBook, downBook) ==
    /\ input = NoCall
    /\ input' = [fn |-> "getPolymarketAskPrices", data |-> data,
                  upBook |-> upBook, downBook |-> downBook]
    /\ output' = [fn |-> "getPolymarketAskPrices",
                   snapshot |-> getPolymarketAskPrices(0, data, upBook, downBook)]
    /\ UNCHANGED <<envVars, procVars, pollVars, schedVars, kalshiRead, polyRead, lookups, arbVars>>

NextParse ==
    \/ \E res \in KalshiResponses, pm \in ParsePolys : ReadKalshi(res, pm)
    \/ \E data \in GammaRecords, upBook \in Books, downBook \in Books :
          ReadPolymarket(data, upBook, downBook)

InitParse == InitPrice

SpecParse == InitParse /\ [][NextParse]_vars

(***************************************************************************)
(* Properties                                                              *)
(***************************************************************************)
\* The band written out, and what the properties read off a state.
InBand(s) == ARB_SUM_LOW <= s /\ s < ARB_SUM_THRESHOLD
DoneOf(leg) == IF leg = "UP" THEN upArbDoneTickers ELSE downArbDoneTickers
Live == ~cfg.dryRun
LegSum(p, leg) == IF leg = "UP" THEN sumUp(p) ELSE sumDown(p)
LegAsk(p, leg) == IF leg = "UP" THEN polyDown(p) ELSE polyUp(p)
\* The snapshot last passed qualifies for key k and is not the one that fired k.
LaterQualifyingCall(k) ==
    /\ dual.kalshi.present /\ dual.polymarket.present
    /\ dual.kalshiTicker = k[1]
    /\ InBand(LegSum(dual, k[2]))
    /\ (k[2] = "DOWN" => ~InBand(sumUp(dual)))
    /\ tasks[k] # Idle
    /\ Min(1000, LegAsk(dual, k[2]) + ARB_PRICE_BUFFER) # tasks[k].price

\* C1: for every ticker and leg, at most one Kalshi placeOrder call and at most
\* one placePolymarketOrder call are ever made, whatever calls are made and
\* however they interleave with order submissions still awaited.
C1_AtMostOncePerTickerLeg ==
    \A k \in Keys : kalshiOrders[k] <= 1 /\ polyCalls[k] <= 1

\* A qualifying snapshot for a leg arrived while the leg's first execution was
\* still waiting for its Kalshi order.
C1_SecondCallWhileAwaiting ==
    \E k \in Keys :
        /\ kalshiOrders[k] = 1
        /\ tasks[k].kalshi = "pending"
        /\ LaterQualifyingCall(k)

\* C2: every execution of a fired leg with dry-run off and Polymarket configured
\* carries a price x size of at least the minimum notional into the Polymarket
\* call, so the call is never refused for its notional and one order reaches
\* each venue.
C2_FiredLegMeetsMinNotional ==
    \A k \in Keys :
        (Live /\ cfg.polyConfigured /\ tasks[k] # Idle) =>
            /\ kalshiOrders[k] = 1
            /\ tasks[k].price * polySize >= POLYMARKET_MIN_USD * 1000
            /\ tasks[k].poly # "below_min"

\* C3: in a call with both venues present, leg 1 when not yet executed fires
\* exactly when ARB_SUM_LOW <= sumUp < ARB_SUM_THRESHOLD, and leg 2, when leg 1
\* does not qualify and leg 2 was not yet executed, fires exactly when
\* ARB_SUM_LOW <= sumDown < ARB_SUM_THRESHOLD; firing records the ticker and,
\* with dry-run off, sends the Kalshi order.
C3_LegFiresIffSumInBand ==
    [][\A p \in ArbSnapshots :
         (p.kalshi.present /\ p.polymarket.present /\ ArbCallOf(p)) =>
            LET t == p.kalshiTicker
                up == InBand(sumUp(p))
                down == InBand(sumDown(p))
            IN  /\ t \notin upArbDoneTickers =>
                      /\ (t \in upArbDoneTickers') <=> up
                      /\ Live => (kalshiOrders'[<<t, "UP">>] = 1 <=> up)
                /\ (~up /\ t \notin downArbDoneTickers) =>
                      /\ (t \in downArbDoneTickers') <=> down
                      /\ Live => (kalshiOrders'[<<t, "DOWN">>] = 1 <=> down)
      ]_vars

\* Leg 2 fired on a sum equal to the lower bound (leg 1's sum is below the band),
\* and leg 1 did not fire.
C3_FiredAtLowerBound ==
    /\ dual = DualMarketPrices(0, MarketPrices(27, 45), PolymarketPrices(0, 300, 470))
    /\ sumDown(dual) = ARB_SUM_LOW
    /\ 0 \in downArbDoneTickers
    /\ 0 \notin upArbDoneTickers
    /\ tasks[<<0, "DOWN">>].price = 310

\* C4: a call whose snapshot lacks the Kalshi side, the Polymarket side or both
\* changes neither execution-state set nor the token-id cache, and starts no
\* order on either venue.
C4_AbsentSnapshotNoEffect ==
    [][\A p \in ArbSnapshots :
         ((~p.kalshi.present \/ ~p.polymarket.present) /\ ArbCallOf(p)) =>
            UNCHANGED <<upArbDoneTickers, downArbDoneTickers, tokenIdsCache, tasks,
                        kalshiOrders, polyCalls>>
      ]_vars

\* A call was made with Kalshi asks that alone would sum into the band and no
\* Polymarket snapshot, and nothing was recorded for the ticker.
C4_CalledWithoutPolymarket ==
    /\ dual = DualMarketPrices(0, MarketPrices(80, 21), AbsentPoly)
    /\ InBand(kUp(dual))
    /\ upArbDoneTickers = {} /\ downArbDoneTickers = {}

\* C5: at every instant at most one getDualPrices invocation is in flight.
C5_AtMostOneFetchInFlight == fetches <= 1

\* A fetch is in flight after an earlier tick's fetch completed and delivered a
\* snapshot, with stop already called.
C5_FetchInFlightAfterEarlierTick ==
    /\ fetches = 1 /\ pollInProgress
    /\ dual # NoSnapshot
    /\ stopped

\* The executions with an order request outstanding at a venue.
Submitting == { k \in Keys : tasks[k].kalshi = "pending" \/ tasks[k].poly = "posting" }
FailedAtPolymarket == {"error", "setup_error", "below_min"}

\* C6 as stated: the order submissions started by one tick's callback have
\* finished before the next tick's fetch is in flight.
C6_SubmissionsDoneBeforeNextFetch == pollPc = "fetch" => Submitting = {}

\* C6, what holds: the execution-state sets change, and Kalshi orders are
\* started, only in the step that runs the callback, which ends the one fetch in
\* flight and comes before the next tick is scheduled; the order submissions
\* that step starts are not waited for by the monitor.
C6_MutationOnlyInCallbackStep ==
    [][(\/ upArbDoneTickers' # upArbDoneTickers
        \/ downArbDoneTickers' # downArbDoneTickers
        \/ kalshiOrders' # kalshiOrders) =>
           /\ pollPc = "fetch" /\ pollPc' = "idle"
           /\ fetches = 1 /\ fetches' = 0
           /\ timers = 0 /\ timers' = 1
      ]_vars

\* The next tick's fetch is in flight while an order started by an earlier
\* tick's callback is still outstanding.
C6_FetchOverlapsSubmission ==
    /\ pollPc = "fetch" /\ fetches = 1
    /\ \E k \in Keys : tasks[k].kalshi = "pending" /\ k[1] \in DoneOf(k[2])

\* C7 as stated: the Polymarket call is made without waiting for the Kalshi
\* order, as soon as the token ids are there.
C7_PolymarketNotAfterKalshi ==
    \A k \in Keys :
        (tasks[k].kalshi = "pending" /\ tasks[k].tok = "ok") => tasks[k].poly # "notcalled"

\* C7, what holds: the Kalshi order and the token-id lookup start together, and
\* placePolymarketOrder is called only once the Kalshi order has settled.
C7_PolymarketAfterKalshiSettled ==
    \A k \in Keys :
        /\ tasks[k].poly \notin {"none", "notcalled"} => tasks[k].kalshi \in {"ok", "error"}
        /\ polyCalls[k] > 0 => kalshiOrders[k] > 0
        /\ tasks[k].kalshi = "pending" => tasks[k].poly = "notcalled"

\* The token ids are resolved and the Kalshi order is still outstanding: the
\* Polymarket call has not been made.
C7_WaitingForKalshiOnly ==
    \E k \in Keys :
        /\ tasks[k].kalshi = "pending" /\ tasks[k].tok = "ok"
        /\ tasks[k].poly = "notcalled" /\ polyCalls[k] = 0
        /\ Live /\ cfg.polyConfigured

\* C8: a failed Kalshi order does not keep placePolymarketOrder from being
\* called for the leg, a failed Polymarket order finds the Kalshi order already
\* sent, and the step in which either fails leaves both execution-state sets
\* as they were.
C8_FailureIsolated ==
    /\ [](\A k \in Keys :
            /\ (tasks[k].kalshi = "error" /\ tasks[k].tok = "ok") =>
                   (tasks[k].poly # "notcalled" /\ polyCalls[k] = 1)
            /\ tasks[k].poly \in FailedAtPolymarket => kalshiOrders[k] = 1)
    /\ [][\A k \in Keys :
            (/\ tasks'[k] # tasks[k]
             /\ \/ tasks'[k].kalshi = "error"
                \/ tasks'[k].poly \in FailedAtPolymarket) =>
               /\ upArbDoneTickers' = upArbDoneTickers
               /\ downArbDoneTickers' = downArbDoneTickers
               /\ k[1] \in DoneOf(k[2])
         ]_vars

\* The Kalshi order of a leg failed and its Polymarket order was posted.
C8_KalshiFailedPolymarketPosted ==
    \E k \in Keys :
        /\ tasks[k].kalshi = "error"
        /\ tasks[k].poly \in {"posting", "ok"}
        /\ k[1] \in DoneOf(k[2])

\* C9: a leg with an order sent or an execution under way has its ticker in the
\* leg's execution-state set; the sets never lose an entry; and once the ticker
\* is in the set no further Kalshi order is sent for the leg and no execution of
\* it is started again.
C9_AttemptedIsFinal ==
    /\ [](\A k \in Keys :
            (kalshiOrders[k] > 0 \/ polyCalls[k] > 0 \/ tasks[k] # Idle) =>
                k[1] \in DoneOf(k[2]))
    /\ [][/\ upArbDoneTickers \subseteq upArbDoneTickers'
          /\ downArbDoneTickers \subseteq downArbDoneTickers'
          /\ \A k \in Keys :
                k[1] \in DoneOf(k[2]) =>
                    /\ kalshiOrders'[k] = kalshiOrders[k]
                    /\ polyCalls'[k] > polyCalls[k] => tasks[k].poly = "notcalled"
                    /\ tasks[k] = Idle => tasks'[k] = Idle
         ]_vars

\* Both orders of a leg failed, its execution is over, and a later qualifying
\* snapshot for the leg was passed: still one Kalshi order, one Polymarket call.
C9_NoRetryAfterFailure ==
    \E k \in Keys :
        /\ tasks[k].kalshi = "error" /\ tasks[k].poly = "error"
        /\ LaterQualifyingCall(k)
        /\ kalshiOrders[k] = 1 /\ polyCalls[k] = 1

\* C10: one call adds an entry to at most one of the two execution-state sets
\* and sends Kalshi orders for at most one leg.
C10_OneLegPerCall ==
    [][/\ ~(upArbDoneTickers' # upArbDoneTickers /\ downArbDoneTickers' # downArbDoneTickers)
       /\ Cardinality({ k \in Keys : kalshiOrders'[k] # kalshiOrders[k] }) <= 1
       /\ Cardinality({ k \in Keys : tasks[k] = Idle /\ tasks'[k] # Idle }) <= 1
      ]_vars

\* A snapshot with both sums in the band was passed when neither leg had been
\* executed: leg 1 fired and leg 2 did not.
C10_BothInBandFiredLeg1Only ==
    /\ dual = DualMarketPrices(0, MarketPrices(40, 45), PolymarketPrices(0, 400, 450))
    /\ InBand(sumUp(dual)) /\ InBand(sumDown(dual))
    /\ 0 \in upArbDoneTickers /\ 0 \notin downArbDoneTickers
    /\ kalshiOrders[<<0, "UP">>] = 1 /\ kalshiOrders[<<0, "DOWN">>] = 0
    /\ tasks[<<0, "UP">>].price = 460

\* The step in which poll resumes from its fetch, runs the callback and reaches
\* scheduleNext without having been stopped.
TickCompletes == pollPc = "fetch" /\ pollPc' = "idle" /\ ~stopped

\* C11: a tick that ran its fetch and was not stopped schedules exactly one
\* successor timer, with delay max(0, intervalMs - elapsed), elapsed counted from
\* the start of that tick; the delay lies in 0..intervalMs and is 0 when fetch and
\* callback took at least intervalMs; at no time are two timers pending.
C11_SelfPacing ==
    /\ [](timers <= 1 /\ delay \in 0..intervalMs)
    /\ [][TickCompletes =>
            /\ timers = 0 /\ timers' = 1
            /\ delay' = Max(0, intervalMs - (now - startedAt))
            /\ now - startedAt >= intervalMs => delay' = 0
         ]_vars

\* A tick took longer than the interval, delivered its snapshot and armed its
\* successor with delay 0.
C11_SlowTickZeroDelay ==
    /\ mainPc = "running" /\ ~stopped
    /\ now - startedAt > intervalMs
    /\ pollPc = "idle" /\ ~pollInProgress /\ dual # NoSnapshot
    /\ timers = 1 /\ delay = 0

\* C12: once stop has been called no fetch starts, no timer is armed and the
\* callback is not invoked; a fetch in flight at that time still settles, its tick
\* ends (the in-flight flag is cleared) and arms no successor.
C12_Cancellation ==
    [][stopped =>
          /\ fetches' <= fetches /\ timers' <= timers
          /\ dual' = dual /\ onErrorCalls' = onErrorCalls
          /\ (pollPc = "fetch" /\ pollPc' = "idle") =>
                (fetches' = fetches - 1 /\ ~pollInProgress' /\ timers' = timers)
      ]_vars

\* stop was called while the fetch for slot 1 was in flight: the fetch has settled,
\* its snapshot was not delivered (the last one delivered is of slot 0), no callback
\* ever threw, and no timer is pending.
C12_StoppedTickCompleted ==
    /\ stopped /\ mainPc = "running"
    /\ fetchSlug = 1 /\ pollPc = "idle" /\ ~pollInProgress /\ fetches = 0
    /\ dual.polymarket.present /\ dual.polymarket.slug = 0
    /\ onErrorCalls = 0
    /\ timers = 0

\* The step in which poll sees a new slot in restart mode.
HandOff ==
    /\ mainPc = "running" /\ timers > 0 /\ ~pollInProgress /\ ~stopped
    /\ useAutoRefresh /\ restartOnQuarterHour /\ slot # lastSlot
    /\ timers' = timers - 1

\* C13: in restart mode with auto-resolution the first tick that sees a new slot
\* releases the lock, then spawns the replacement, then exits with status 0, in
\* that order, and that tick starts no fetch, calls no callback and arms no timer.
C13_HandOffOrder ==
    /\ [](spawned > 0 =>
             /\ procLog = <<"release", "spawn", "exit0">>
             /\ ~lockHeld /\ mainPc = "exited" /\ spawned = 1)
    /\ [][HandOff =>
             /\ spawned' = spawned + 1 /\ mainPc' = "exited"
             /\ lastSlot' = slot
             /\ fetches' = fetches /\ pollPc' = pollPc
             /\ dual' = dual /\ onErrorCalls' = onErrorCalls
             /\ timers' = 0
         ]_vars

\* The process handed off at the first tick of slot 1 after having polled in slot 0.
C13_HandedOffAfterPolling ==
    /\ spawned = 1 /\ mainPc = "exited" /\ ~lockHeld
    /\ slot = 1 /\ lastSlot = 1 /\ fetchSlug = 0
    /\ timers = 0 /\ fetches = 0

\* C14: in refresh-in-place mode every fetch made after a slot transition uses a
\* ticker resolved for the new slot, never the previous slot's ticker.
C14_FetchUsesNewSlotTicker ==
    (/\ mainPc = "running" /\ useAutoRefresh /\ ~restartOnQuarterHour
     /\ pollPc = "fetch")
       => kalshiTicker >= lastSlot

\* C15: while the process runs and stop was not called the loop is alive: a tick
\* is in progress or a timer for the next one is pending.
C15_LoopAlive ==
    (mainPc = "running" /\ ~stopped) => (timers > 0 \/ pollPc # "idle")

\* C16: when onPrices throws, the scheduler reports the exception through onError
\* once, clears the in-flight flag and arms the successor timer as after any other
\* tick; the process keeps running.
C16_CallbackThrowCaught ==
    [][\A p \in SchedResults :
         FetchSettled(p, TRUE) =>
            /\ onErrorCalls' = Bump(onErrorCalls)
            /\ ~pollInProgress' /\ pollPc' = "idle" /\ mainPc' = "running"
            /\ timers = 0 /\ timers' = 1
            /\ delay' = Max(0, intervalMs - (now - startedAt))
      ]_vars

\* The callback of the first tick threw (no snapshot was ever delivered), the hook
\* was called once, and the next tick is fetching.
C16_TickAfterThrow ==
    /\ onErrorCalls = 1 /\ dual = NoSnapshot
    /\ mainPc = "running" /\ ~stopped
    /\ pollPc = "fetch" /\ pollInProgress /\ fetches = 1 /\ timers = 0

\* C17: getDualPrices starts both reads in the step of the call; it resolves only
\* when both have settled, with exactly what each read resolved with, so that a
\* failed read (null) leaves the other venue's prices in the snapshot.
C17_DualPricesIndependentReads ==
    /\ [][fetches' > fetches =>
             kalshiRead'.state = "pending" /\ polyRead'.state = "pending"]_vars
    /\ [][(pollPc = "fetch" /\ pollPc' = "idle") =>
             /\ kalshiRead.state = "done" /\ polyRead.state = "done"
             /\ dual'.kalshiTicker = kalshiTicker
             /\ dual'.kalshi = kalshiRead.value
             /\ dual'.polymarket = polyRead.value
         ]_vars
    /\ [](pollPc = "fetch" =>
             /\ kalshiRead.state \in {"pending", "done"}
             /\ polyRead.state \in {"pending", "done"}
             /\ polyPc = "failed" => polyRead = ReadDone(AbsentPoly))

\* The token-id lookup of the Polymarket read failed while the Kalshi read was still
\* awaited, and the snapshot returned carries the Kalshi prices without Polymarket's.
C17_KalshiPresentPolymarketFailed ==
    /\ pollPc = "idle" /\ fetches = 0 /\ fetchSlug = 1
    /\ tokenIdsCache = NoEntry
    /\ dual = DualMarketPrices(1, MarketPrices(80, 21), AbsentPoly)

\* The Kalshi read settled first: it has failed while the Polymarket books are
\* still awaited.
C17_KalshiFailedFirst ==
    /\ pollPc = "fetch" /\ polyPc = "book"
    /\ kalshiRead = ReadDone(AbsentKalshi) /\ polyRead.state = "pending"

\* C18 as stated: of two calls in a row for the same slug at most one issues the
\* external resolution call.
C18_SameSlugOneExternalCall ==
    \A i \in 1..(Len(lookups) - 1) :
       lookups[i].slug = lookups[i + 1].slug =>
          ~(lookups[i].external /\ lookups[i + 1].external)

\* C18, amended: a call for the cached slug makes no external call and returns the
\* cached ids; a call for any other slug makes one external call and, when it
\* succeeds, replaces the entry; every call that returns returns the ids of the
\* slug it asked for; of two calls in a row for the same slug the second makes no
\* external call when the first had returned before it and neither overlapped an
\* earlier call.
C18_CacheHitAndMiss ==
    /\ [](\A i \in 1..Len(lookups) :
            /\ lookups[i].state = "returned" =>
                  lookups[i].ids = fetchTokenIdsForSlug(lookups[i].slug)
            /\ ~lookups[i].external => lookups[i].state = "returned")
    /\ [](tokenIdsCache # NoEntry =>
            /\ tokenIdsCache.slug \in Slugs
            /\ tokenIdsCache.ids = fetchTokenIdsForSlug(tokenIdsCache.slug))
    /\ [](\A i \in 1..(Len(lookups) - 1) :
            (/\ lookups[i].slug = lookups[i + 1].slug
             /\ lookups[i].state = "returned"
             /\ ~lookups[i].overlapped /\ ~lookups[i + 1].overlapped)
               => ~lookups[i + 1].external)
    /\ [][\A slug \in Slugs :
            LookupCall(slug) =>
               /\ tokenIdsCache' = tokenIdsCache
               /\ lookups'[Len(lookups')].external <=> tokenIdsCache.slug # slug
         ]_vars
    /\ [][\A i \in 1..MaxLookups :
            LookupSettled(i, TRUE) =>
               tokenIdsCache' = [slug |-> lookups[i].slug,
                                 ids |-> fetchTokenIdsForSlug(lookups[i].slug)]
         ]_vars

\* Slug 0 was resolved by an external call, resolved again from the cache, and
\* then slug 1 was resolved by an external call and took the entry's place.
C18_HitThenReplaced ==
    /\ Len(lookups) = 3
    /\ lookups[1].slug = 0 /\ lookups[1].external /\ lookups[1].state = "returned"
    /\ lookups[2].slug = 0 /\ ~lookups[2].external /\ lookups[2].state = "returned"
    /\ lookups[3].slug = 1 /\ lookups[3].external /\ lookups[3].state = "returned"
    /\ tokenIdsCache = [slug |-> 1, ids |-> fetchTokenIdsForSlug(1)]

\* C19: when the external resolution fails, the call throws and the cache is left
\* as it was: the previous entry stays and nothing is stored for the failed slug.
C19_FailureLeavesCache ==
    /\ [][\A i \in 1..MaxLookups :
            LookupSettled(i, FALSE) =>
               /\ tokenIdsCache' = tokenIdsCache
               /\ lookups'[i].state = "threw" /\ lookups'[i].ids = NoIds
         ]_vars
    /\ [][\A slug \in Slugs :
            (tokenIdsCache.slug = slug /\ LookupCall(slug)) =>
               /\ lookups'[Len(lookups')].state = "returned"
               /\ lookups'[Len(lookups')].ids = tokenIdsCache.ids
         ]_vars

\* Slug 0 was resolved and cached, the resolution of slug 1 failed, and slug 0 was
\* then returned from the cache, which still holds it.
C19_EntrySurvivesFailure ==
    /\ Len(lookups) = 3
    /\ lookups[1].slug = 0 /\ lookups[1].external /\ lookups[1].state = "returned"
    /\ lookups[2].slug = 1 /\ lookups[2].state = "threw" /\ ~lookups[2].overlapped
    /\ lookups[3].slug = 0 /\ ~lookups[3].external /\ ~lookups[3].overlapped
    /\ lookups[3].ids = fetchTokenIdsForSlug(0)
    /\ tokenIdsCache = [slug |-> 0, ids |-> fetchTokenIdsForSlug(0)]

\* What a call with snapshot p makes of the two execution-state sets, stated
\* without reference to the configuration.
MarkedAfter(p, upDone, downDone) ==
    IF ~(p.kalshi.present /\ p.polymarket.present) THEN <<upDone, downDone>>
    ELSE IF InBand(sumUp(p)) THEN <<upDone \cup {p.kalshiTicker}, downDone>>
    ELSE IF InBand(sumDown(p)) THEN <<upDone, downDone \cup {p.kalshiTicker}>>
    ELSE <<upDone, downDone>>

\* C20: in dry-run and in live mode alike each call turns the two execution-state
\* sets into the same function of the snapshot and the sets before it, and no
\* other step changes them, so equal snapshot sequences give equal sets; in
\* dry-run no order is ever started on either venue.
C20_DryRunMarksAsLive ==
    /\ [][\A p \in ArbSnapshots :
            ArbCallOf(p) =>
               <<upArbDoneTickers', downArbDoneTickers'>> =
                  MarkedAfter(p, upArbDoneTickers, downArbDoneTickers)
         ]_vars
    /\ [][\/ <<upArbDoneTickers', downArbDoneTickers'>> =
                <<upArbDoneTickers, downArbDoneTickers>>
          \/ \E p \in ArbSnapshots : ArbCallOf(p)
         ]_vars
    /\ [](cfg.dryRun =>
            \A k \in Keys : kalshiOrders[k] = 0 /\ polyCalls[k] = 0 /\ tasks[k] = Idle)

\* A dry-run process has marked both legs of ticker 0 and has sent nothing.
C20_DryRunMarkedBothLegs ==
    /\ cfg.dryRun
    /\ 0 \in upArbDoneTickers /\ 0 \in downArbDoneTickers
    /\ \A k \in Keys : kalshiOrders[k] = 0 /\ polyCalls[k] = 0

\* A live process has marked both legs of ticker 0, as the dry-run one does.
C20_LiveMarkedBothLegs ==
    /\ ~cfg.dryRun
    /\ 0 \in upArbDoneTickers /\ 0 \in downArbDoneTickers
    /\ kalshiOrders[<<0, "UP">>] = 1 /\ kalshiOrders[<<0, "DOWN">>] = 1

Releases == Cardinality({ i \in 1..Len(procLog) : procLog[i] = "release" })

\* C22: a process that has terminated has released the lock it acquired at
\* start, exactly once.
C22_LockReleasedOnExit ==
    mainPc = "exited" => (~lockHeld /\ Releases = 1)

\* C23: over the monitor's run and the replacement processes it spawns, each venue
\* receives at most one order per market and leg.
C23_OncePerLegAcrossRestarts ==
    \A t \in Tickers, leg \in Legs :
       kalshiOrders[<<t, leg>>] < 2 /\ polyCalls[<<t, leg>>] < 2

PlaceCalled == input.fn = "placePolymarketOrder"
PlaceNotConfigured == ~cfg.polyConfigured
PlaceDryRun == cfg.polyConfigured /\ cfg.dryRun /\ ~input.forcePlace
PlaceBelowMin ==
    input.price * input.size <
        (IF POLYMARKET_MIN_USD > 0 THEN POLYMARKET_MIN_USD ELSE 1) * 1000

\* C24: placePolymarketOrder returns null without submitting when credentials are
\* missing (even with forcePlace) or when ARB_DRY_RUN is set and forcePlace is not;
\* an error value without submitting below the minimum notional; otherwise it
\* submits exactly one order and returns the order id on success or an error value
\* on any failure; it never throws.
C24_PlaceContract ==
    PlaceCalled =>
        /\ output.result # "throws"
        /\ (PlaceNotConfigured \/ PlaceDryRun) =>
               output.result = "null" /\ output.submitted = 0
        /\ (~PlaceNotConfigured /\ ~PlaceDryRun /\ PlaceBelowMin) =>
               output.result = "error" /\ output.submitted = 0
        /\ (~PlaceNotConfigured /\ ~PlaceDryRun /\ ~PlaceBelowMin) =>
               /\ output.submitted = 1
               /\ output.result \in {"orderId", "error"}
               /\ output.result = "orderId" <=> input.resp = "ok"

\* C24 (amended): as above, except that past the three early returns the call
\* submits at most one order, none when the CLOB client cannot be loaded or
\* built, which it reports as an error value; and the call throws exactly when a
\* log line is due (every return but the dry-run one) and appending it throws.
C24_PlaceOutcomes ==
    PlaceCalled =>
        /\ (PlaceNotConfigured \/ PlaceDryRun) => output.submitted = 0
        /\ PlaceNotConfigured =>
               output.result = (IF input.logOk THEN "null" ELSE "throws")
        /\ PlaceDryRun => output.result = "null"
        /\ (~PlaceNotConfigured /\ ~PlaceDryRun /\ PlaceBelowMin) =>
               /\ output.submitted = 0
               /\ output.result = (IF input.logOk THEN "error" ELSE "throws")
        /\ (~PlaceNotConfigured /\ ~PlaceDryRun /\ ~PlaceBelowMin) =>
               /\ output.submitted = (IF input.clientOk THEN 1 ELSE 0)
               /\ output.result =
                      (IF ~input.logOk THEN "throws"
                       ELSE IF input.clientOk /\ input.resp = "ok" THEN "orderId"
                       ELSE "error")

\* A forced call under ARB_DRY_RUN posted its order and returned the order id.
C24_ForcedOrder ==
    /\ PlaceCalled /\ cfg.dryRun /\ input.forcePlace
    /\ output.submitted = 1 /\ output.result = "orderId"

\* The Kalshi record read has no value for the yes ask (the no ask), in either field.
KalshiYesAskMissing ==
    /\ input.fn = "getMarketPrices" /\ input.res.status = "market"
    /\ input.res.yes_ask = Undefined
    /\ input.res.yes_ask_dollars \in {Undefined, EmptyString}
KalshiNoAskMissing ==
    /\ input.fn = "getMarketPrices" /\ input.res.status = "market"
    /\ input.res.no_ask = Undefined
    /\ input.res.no_ask_dollars \in {Undefined, EmptyString}

\* The Polymarket read met a book without asks or a Gamma record without the
\* Up/Down outcomes or their token ids.
PolymarketFieldMissing ==
    /\ input.fn = "getPolymarketAskPrices"
    /\ \/ input.upBook.status = "noasks" \/ input.upBook.asks = <<>>
       \/ input.downBook.status = "noasks" \/ input.downBook.asks = <<>>
       \/ ~TokenIdsFound(input.data)

\* C25: a venue read whose response lacks the expected price fields yields an
\* absent snapshot for that venue, as a transport failure does, so the detector
\* fires no leg on a sum built from a missing price.
C25_MissingFieldsAbsent ==
    /\ (KalshiYesAskMissing \/ KalshiNoAskMissing) => ~output.snapshot.present
    /\ KalshiYesAskMissing => "UP" \notin output.fired
    /\ KalshiNoAskMissing => "DOWN" \notin output.fired
    /\ PolymarketFieldMissing => ~output.snapshot.present

\* A timer fires and poll gets past its tests of pollInProgress and stopped.
TickRuns == PollTick /\ ~pollInProgress /\ ~stopped

\* With a fixed ticker the process has spawned nothing, holds the ticker it was
\* given, has never seen another slot key and is never re-resolving the ticker.
FixedTickerNoTransition ==
    options.kalshiTicker # NoTicker =>
        /\ spawned = 0 /\ procLog \in {<<>>, <<"release", "exit0">>}
        /\ kalshiTicker = options.kalshiTicker
        /\ lastSlot = 0
        /\ pollPc # "markets"

\* C26: a slot transition is detected only when the slot key differs from the last
\* observed key and no fixed ticker was supplied.  With a fixed ticker no tick
\* spawns a replacement, exits or re-resolves the ticker, whatever the restart
\* option and however many boundaries pass; with auto-resolution a tick detects a
\* changed key (it records the key and restarts or re-resolves instead of
\* fetching), and a tick that finds the recorded key detects nothing, so each
\* change of key is detected once.
C26_SlotDetection ==
    /\ []FixedTickerNoTransition
    /\ [][TickRuns =>
            IF options.kalshiTicker = NoTicker /\ slot # lastSlot
            THEN /\ lastSlot' = slot
                 /\ fetches' = fetches
                 /\ IF options.restartProcessOnQuarterHour
                    THEN spawned' = spawned + 1 /\ mainPc' = "exited"
                    ELSE spawned' = spawned /\ mainPc' = mainPc /\ pollPc' = "markets"
            ELSE /\ lastSlot' = lastSlot /\ spawned' = spawned /\ mainPc' = mainPc
                 /\ kalshiTicker' = kalshiTicker
                 /\ pollPc' = "fetch"]_vars

\* With a fixed ticker and the restart option on, a tick that ran after the slot
\* boundary is fetching prices in the same process.
C26_FixedTickerPastBoundary ==
    /\ options.kalshiTicker # NoTicker /\ options.restartProcessOnQuarterHour
    /\ slot = 1 /\ lastSlot = 0
    /\ pollPc = "fetch" /\ fetchSlug = 1
    /\ mainPc = "running" /\ spawned = 0

\* C27: leg 2 is evaluated in a call only if leg 1's sum does not qualify in that
\* call.  A call whose leg-1 sum is in the band leaves everything of leg 2 as it
\* was (its execution-state set, its orders on both venues), whether leg 1 fires
\* in the call or had been executed for the ticker before, and whatever leg 2's
\* sum is.
C27_Leg1InBandSkipsLeg2 ==
    [][\A p \in ArbSnapshots :
         (BothPresent(p) /\ InBand(sumUp(p)) /\ ArbCallOf(p)) =>
            LET down == <<p.kalshiTicker, "DOWN">>
            IN  /\ downArbDoneTickers' = downArbDoneTickers
                /\ tasks'[down] = tasks[down]
                /\ kalshiOrders'[down] = kalshiOrders[down]
                /\ polyCalls'[down] = polyCalls[down]
      ]_vars

\* Leg 1 had been executed for the ticker when a snapshot with both sums in the
\* band was passed: leg 2, never executed, did not fire.
C27_Leg1DoneLeg2InBand ==
    /\ LaterQualifyingCall(<<0, "UP">>)
    /\ InBand(sumDown(dual))
    /\ 0 \in upArbDoneTickers /\ 0 \notin downArbDoneTickers
    /\ kalshiOrders[<<0, "DOWN">>] = 0 /\ polyCalls[<<0, "DOWN">>] = 0

\* C28: every snapshot delivered to the callback with both venues present pairs a
\* Kalshi ticker and a Polymarket slug of the same 15-minute slot, also on ticks
\* that straddle a slot boundary and in runs with a fixed Kalshi ticker.
C28_SameSlotPairing ==
    (dual.kalshi.present /\ dual.polymarket.present) =>
        dual.kalshiTicker = dual.polymarket.slug

\* C29: once a fired leg has submitted its Kalshi order, the Polymarket order of
\* that leg is attempted before the process terminates: the process never ends
\* with a leg whose Kalshi order went out and whose placePolymarketOrder call was
\* not made.
C29_NoExitBetweenSubmissions ==
    mainPc = "exited" =>
        \A k \in Keys : tasks[k].kalshi = "none" \/ tasks[k].poly # "notcalled"

\* C30: inside the monitor process the executor's token-id lookup is always a
\* cache hit.  In the step in which the callback fires a leg (its execution
\* starts), the cache entry's slug is the snapshot's slug, the lookup resolves at
\* once and the cache stays as it is; no execution ever waits for, or fails on, a
\* resolution of its own.
C30_ExecutorLookupHits ==
    /\ [](\A k \in Keys : tasks[k].tok \in {"none", "ok"})
    /\ [][\A k \in Keys :
            (tasks[k] = Idle /\ tasks'[k] # Idle) =>
               /\ tasks'[k].slug = dual'.polymarket.slug
               /\ tokenIdsCache.slug = tasks'[k].slug
               /\ tasks'[k].tok = "ok"
               /\ tokenIdsCache' = tokenIdsCache
         ]_vars

\* A leg fired on a snapshot of slot 1 in a process that had already sent an order
\* for another leg: its lookup hit the entry the fetch had stored for slot 1.
C30_HitAfterSlotChange ==
    \E k \in Keys, j \in Keys :
        /\ j # k /\ kalshiOrders[j] = 1
        /\ tasks[k].slug = 1 /\ tasks[k].tok = "ok"
        /\ tokenIdsCache.slug = 1
        /\ mainPc = "running"

\* C31: in restart mode, with no stop signal given, the chain of processes never
\* ends on its own after a hand-off: a process that has exited is one that handed
\* off to a replacement, which goes on to acquire the lock, resolve a ticker and
\* deliver snapshots of the new slot.
C31_ChainNeverEnds ==
    (spawned > 0 /\ mainPc = "exited") => procLog = <<"release", "spawn", "exit0">>

\* C32: once the stop function has been called it stays called, and the onPrices
\* callback is never invoked again: no snapshot is handed over, no leg is
\* detected and no callback error is reported, not even when the fetch that was
\* in flight at the call settles.
C32_NoCallbackAfterStop ==
    [][stopped =>
          /\ stopped'
          /\ dual' = dual
          /\ upArbDoneTickers' = upArbDoneTickers
          /\ downArbDoneTickers' = downArbDoneTickers
          /\ onErrorCalls' = onErrorCalls
      ]_vars

\* stop was called while the monitor's first fetch was in flight: the fetch has
\* settled, the tick is over, and no snapshot has ever reached the callback.
C32_FirstSnapshotDiscarded ==
    /\ stopped /\ mainPc = "running"
    /\ fetchSlug # NoSlug /\ fetches = 0
    /\ pollPc = "idle" /\ ~pollInProgress
    /\ dual = NoSnapshot /\ onErrorCalls = 0

====
